---- MODULE Spec2Model ----
(***************************************************************************)
(* Model of the Cloudfit interview scheduler (src/src/main.cpp): TimeSlot, *)
(* User, Interview and Scheduler.  Time points are small naturals; a       *)
(* TimeSlot is any pair of time points (the constructor validates          *)
(* nothing).  One Scheduler instance lives in the process, so the static   *)
(* counters User::next_id and Interview::next_id are plain variables.      *)
(***************************************************************************)
EXTENDS Integers, Sequences, FiniteSets, TLC

\* ------------------------------------------------------------------ bounds
MaxTime == 2
MaxUsers == 3
MaxAvail == 1
MaxInterviews == 2

\* ------------------------------------------------------------------ inputs
Times == 0..MaxTime
UserRole == {"HR_MANAGER", "INTERVIEWER"}
InterviewStatus == {"SCHEDULED", "COMPLETED", "CANCELLED", "RESCHEDULED"}
TimeSlot(start, end) == [start_time |-> start, end_time |-> end]
Slots == {TimeSlot(a, b) : a \in Times, b \in Times}
\* Availability windows a caller adds: the whole day and its first part.
Windows == {TimeSlot(0, MaxTime), TimeSlot(0, 1)}
\* Slots a caller asks to book: two touching slots, the whole day that
\* overlaps both, a zero-length slot and an inverted one (the TimeSlot
\* constructor accepts start >= end).
BookingSlots ==
    {TimeSlot(0, 1), TimeSlot(1, MaxTime), TimeSlot(0, MaxTime),
     TimeSlot(1, 1), TimeSlot(1, 0)}
\* Ids a caller passes: an id not yet handed out is an unknown id.
UserIdArgs == 1..MaxUsers
InterviewIdArgs == 1..MaxInterviews
Candidates == {"John Doe"}
Positions == {"Engineer"}
Notes == {"", "note"}

VARIABLES users, interviews, user_next_id, interview_next_id, last

vars == <<users, interviews, user_next_id, interview_next_id, last>>
engine == <<users, interviews, user_next_id, interview_next_id>>

\* ---------------------------------------------------------------- TimeSlot
\* Seeded fault: the second comparison reads the wrong end of the other slot.
overlaps_end_typo(self, other) ==
    self.start_time < other.end_time /\ self.end_time > other.end_time

\* Seeded fault: the comparisons are inclusive, so touching slots overlap.
overlaps_inclusive(self, other) ==
    self.start_time <= other.end_time /\ self.end_time >= other.start_time

\* Seeded fault: only the start of the other slot is looked for inside this one.
overlaps_starts_within(self, other) ==
    other.start_time >= self.start_time /\ other.start_time < self.end_time

overlaps(self, other) ==
    self.start_time < other.end_time /\ self.end_time > other.start_time

\* -------------------------------------------------------------------- User
User(id, role) ==
    [user_id |-> id, role |-> role, availability |-> <<>>,
     scheduled_interviews |-> {}]

add_scheduled_interview(user, interview_id) ==
    [user EXCEPT !.scheduled_interviews = @ \cup {interview_id}]

\* Seeded fault: erases the user's own id instead of the interview id.
remove_scheduled_interview_wrong_key(user, interview_id) ==
    [user EXCEPT !.scheduled_interviews = @ \ {user.user_id}]

remove_scheduled_interview(user, interview_id) ==
    [user EXCEPT !.scheduled_interviews = @ \ {interview_id}]

\* Seeded fault: the window must start strictly before the slot.
RECURSIVE is_available_from_strict(_, _, _)
is_available_from_strict(availability, k, slot) ==
    IF k > Len(availability) THEN FALSE
    ELSE IF slot.start_time > availability[k].start_time
            /\ slot.end_time <= availability[k].end_time
         THEN TRUE
         ELSE is_available_from_strict(availability, k + 1, slot)

\* Seeded fault: only the start of the slot is compared with the window.
RECURSIVE is_available_from_start_only(_, _, _)
is_available_from_start_only(availability, k, slot) ==
    IF k > Len(availability) THEN FALSE
    ELSE IF slot.start_time >= availability[k].start_time
         THEN TRUE
         ELSE is_available_from_start_only(availability, k + 1, slot)

\* Seeded fault: the answer of the first window is returned.
RECURSIVE is_available_from_first_only(_, _, _)
is_available_from_first_only(availability, k, slot) ==
    IF k > Len(availability) THEN FALSE
    ELSE /\ slot.start_time >= availability[k].start_time
         /\ slot.end_time <= availability[k].end_time

RECURSIVE is_available_from(_, _, _)
is_available_from(availability, k, slot) ==
    IF k > Len(availability) THEN FALSE
    ELSE IF slot.start_time >= availability[k].start_time
            /\ slot.end_time <= availability[k].end_time
         THEN TRUE
         ELSE is_available_from(availability, k + 1, slot)

is_available(user, slot) == is_available_from(user.availability, 1, slot)

\* --------------------------------------------------------------- Interview
\* Seeded fault: the id of a cancelled interview is handed out again.
Interview_reuse_id(id, candidate, pos, hr_id, int_id, slot) ==
    LET freed == {x \in DOMAIN interviews : interviews[x].status = "CANCELLED"}
    IN  [interview_id |-> IF freed = {} THEN id
                          ELSE CHOOSE x \in freed : \A y \in freed : x <= y,
         candidate_name |-> candidate, position |-> pos,
         hr_manager_id |-> hr_id, interviewer_id |-> int_id,
         time_slot |-> slot, status |-> "SCHEDULED", notes |-> ""]

\* Seeded fault: the two participant ids are stored in each other's field.
Interview_swapped(id, candidate, pos, hr_id, int_id, slot) ==
    [interview_id |-> id, candidate_name |-> candidate, position |-> pos,
     hr_manager_id |-> int_id, interviewer_id |-> hr_id, time_slot |-> slot,
     status |-> "SCHEDULED", notes |-> ""]

Interview(id, candidate, pos, hr_id, int_id, slot) ==
    [interview_id |-> id, candidate_name |-> candidate, position |-> pos,
     hr_manager_id |-> hr_id, interviewer_id |-> int_id, time_slot |-> slot,
     status |-> "SCHEDULED", notes |-> ""]

\* --------------------------------------------------------------- Scheduler
get_user(user_id) == user_id \in DOMAIN users
get_interview(interview_id) == interview_id \in DOMAIN interviews

\* Seeded fault: the status of the resolved interview is not looked at.
has_conflict_any_status(user_id, time_slot) ==
    IF ~get_user(user_id) THEN FALSE
    ELSE \E interview_id \in users[user_id].scheduled_interviews :
            /\ interview_id \in DOMAIN interviews
            /\ overlaps(interviews[interview_id].time_slot, time_slot)

\* Seeded fault: only CANCELLED interviews are skipped.
has_conflict_not_cancelled(user_id, time_slot) ==
    IF ~get_user(user_id) THEN FALSE
    ELSE \E interview_id \in users[user_id].scheduled_interviews :
            /\ interview_id \in DOMAIN interviews
            /\ interviews[interview_id].status # "CANCELLED"
            /\ overlaps(interviews[interview_id].time_slot, time_slot)

has_conflict(user_id, time_slot) ==
    IF ~get_user(user_id) THEN FALSE
    ELSE \E interview_id \in users[user_id].scheduled_interviews :
            /\ interview_id \in DOMAIN interviews
            /\ interviews[interview_id].status = "SCHEDULED"
            /\ overlaps(interviews[interview_id].time_slot, time_slot)

\* Seeded fault: availability is checked before the roles.
schedule_error_avail_first(hr_manager_id, interviewer_id, time_slot) ==
    IF ~get_user(hr_manager_id) \/ ~get_user(interviewer_id)
    THEN "Invalid user ID"
    ELSE IF ~is_available(users[hr_manager_id], time_slot)
    THEN "HR manager is not available at this time"
    ELSE IF ~is_available(users[interviewer_id], time_slot)
    THEN "Interviewer is not available at this time"
    ELSE IF users[hr_manager_id].role # "HR_MANAGER"
    THEN "User is not an HR manager"
    ELSE IF users[interviewer_id].role # "INTERVIEWER"
    THEN "User is not an interviewer"
    ELSE IF has_conflict(hr_manager_id, time_slot)
            \/ has_conflict(interviewer_id, time_slot)
    THEN "Time slot conflicts with existing interview"
    ELSE ""

\* The exception schedule_interview throws for these arguments, "" if none.
\* Seeded fault: the role of the second participant is not checked.
schedule_error_hr_role_only(hr_manager_id, interviewer_id, time_slot) ==
    IF ~get_user(hr_manager_id) \/ ~get_user(interviewer_id)
    THEN "Invalid user ID"
    ELSE IF users[hr_manager_id].role # "HR_MANAGER"
    THEN "User is not an HR manager"
    ELSE IF ~is_available(users[hr_manager_id], time_slot)
    THEN "HR manager is not available at this time"
    ELSE IF ~is_available(users[interviewer_id], time_slot)
    THEN "Interviewer is not available at this time"
    ELSE IF has_conflict(hr_manager_id, time_slot)
            \/ has_conflict(interviewer_id, time_slot)
    THEN "Time slot conflicts with existing interview"
    ELSE ""

schedule_error(hr_manager_id, interviewer_id, time_slot) ==
    IF ~get_user(hr_manager_id) \/ ~get_user(interviewer_id)
    THEN "Invalid user ID"
    ELSE IF users[hr_manager_id].role # "HR_MANAGER"
    THEN "User is not an HR manager"
    ELSE IF users[interviewer_id].role # "INTERVIEWER"
    THEN "User is not an interviewer"
    ELSE IF ~is_available(users[hr_manager_id], time_slot)
    THEN "HR manager is not available at this time"
    ELSE IF ~is_available(users[interviewer_id], time_slot)
    THEN "Interviewer is not available at this time"
    ELSE IF has_conflict(hr_manager_id, time_slot)
            \/ has_conflict(interviewer_id, time_slot)
    THEN "Time slot conflicts with existing interview"
    ELSE ""

\* What the last call gave back: the operation, the id it returned or was
\* given, and the exception message (schedule_interview) or the boolean
\* (cancel_interview).
Result(op, ret, err) == [op |-> op, ret |-> ret, err |-> err]

Init ==
    /\ users = <<>>
    /\ interviews = <<>>
    /\ user_next_id = 1
    /\ interview_next_id = 1
    /\ last = Result("init", 0, "")

add_user(role) ==
    /\ user_next_id <= MaxUsers
    /\ users' = [id \in DOMAIN users \cup {user_next_id} |->
                    IF id = user_next_id THEN User(user_next_id, role)
                    ELSE users[id]]
    /\ user_next_id' = user_next_id + 1
    /\ last' = Result("add_user", user_next_id, "")
    /\ UNCHANGED <<interviews, interview_next_id>>

\* User::add_availability, reached through get_user(user_id) as main() does;
\* callers do not dereference the null pointer of an unknown id.
\* Seeded fault: a window that an existing window already covers is dropped.
add_availability_upto_merge(user_id, slot, cap) ==
    /\ get_user(user_id)
    /\ Len(users[user_id].availability) < cap
    /\ users' = IF is_available(users[user_id], slot)
                THEN users
                ELSE [users EXCEPT ![user_id].availability = Append(@, slot)]
    /\ last' = Result("add_availability", 0, "")
    /\ UNCHANGED <<interviews, user_next_id, interview_next_id>>

add_availability_upto(user_id, slot, cap) ==
    /\ get_user(user_id)
    /\ Len(users[user_id].availability) < cap
    /\ users' = [users EXCEPT ![user_id].availability = Append(@, slot)]
    /\ last' = Result("add_availability", 0, "")
    /\ UNCHANGED <<interviews, user_next_id, interview_next_id>>

add_availability(user_id, slot) == add_availability_upto(user_id, slot, MaxAvail)

\* Lines 239-250: create the Interview, register it with both users, store it.
\* Seeded fault: the new interview is registered with every participant.
schedule_commit_all_users(candidate_name, position, hr_manager_id, interviewer_id, time_slot) ==
    LET interview == Interview(interview_next_id, candidate_name, position,
                               hr_manager_id, interviewer_id, time_slot)
        interview_id == interview.interview_id
    IN  /\ interview_next_id <= MaxInterviews
        /\ interview_next_id' = interview_next_id + 1
        /\ users' = [p \in DOMAIN users |->
                        add_scheduled_interview(users[p], interview_id)]
        /\ interviews' =
                [id \in DOMAIN interviews \cup {interview_id} |->
                    IF id = interview_id THEN interview ELSE interviews[id]]
        /\ last' = Result("schedule_interview", interview_id, "")
        /\ UNCHANGED user_next_id

schedule_commit(candidate_name, position, hr_manager_id, interviewer_id, time_slot) ==
    LET interview == Interview(interview_next_id, candidate_name, position,
                               hr_manager_id, interviewer_id, time_slot)
        interview_id == interview.interview_id
    IN  /\ interview_next_id <= MaxInterviews
        /\ interview_next_id' = interview_next_id + 1
        /\ users' = [users EXCEPT
                ![hr_manager_id] = add_scheduled_interview(@, interview_id),
                ![interviewer_id] = add_scheduled_interview(@, interview_id)]
        /\ interviews' =
                [id \in DOMAIN interviews \cup {interview_id} |->
                    IF id = interview_id THEN interview ELSE interviews[id]]
        /\ last' = Result("schedule_interview", interview_id, "")
        /\ UNCHANGED user_next_id

\* Seeded fault: the Interview is constructed (and the static counter advanced)
\* before the conflict check.
schedule_interview_early_create(candidate_name, position, hr_manager_id, interviewer_id, time_slot) ==
    LET err == schedule_error(hr_manager_id, interviewer_id, time_slot)
    IN  IF err = "Time slot conflicts with existing interview"
        THEN /\ interview_next_id <= MaxInterviews
             /\ interview_next_id' = interview_next_id + 1
             /\ last' = Result("schedule_interview", 0, err)
             /\ UNCHANGED <<users, interviews, user_next_id>>
        ELSE IF err # ""
        THEN /\ last' = Result("schedule_interview", 0, err)
             /\ UNCHANGED engine
        ELSE schedule_commit(candidate_name, position, hr_manager_id,
                             interviewer_id, time_slot)

schedule_interview(candidate_name, position, hr_manager_id, interviewer_id, time_slot) ==
    LET err == schedule_error(hr_manager_id, interviewer_id, time_slot)
    IN  IF err # ""
        THEN /\ last' = Result("schedule_interview", 0, err)
             /\ UNCHANGED engine
        ELSE schedule_commit(candidate_name, position, hr_manager_id,
                             interviewer_id, time_slot)

\* Lines 280-289: the interview was found; flag it and detach it.
\* Seeded fault: the cancelled record is erased from the registry.
cancel_found_erase(interview_id) ==
    LET hr_manager == interviews[interview_id].hr_manager_id
        interviewer == interviews[interview_id].interviewer_id
        users1 == IF get_user(hr_manager)
                  THEN [users EXCEPT ![hr_manager] =
                            remove_scheduled_interview(@, interview_id)]
                  ELSE users
        users2 == IF get_user(interviewer)
                  THEN [users1 EXCEPT ![interviewer] =
                            remove_scheduled_interview(@, interview_id)]
                  ELSE users1
    IN  /\ interviews' =
                [x \in DOMAIN interviews \ {interview_id} |-> interviews[x]]
        /\ users' = users2
        /\ last' = Result("cancel_interview", interview_id, "true")
        /\ UNCHANGED <<user_next_id, interview_next_id>>

\* Seeded fault: a COMPLETED interview keeps its status when it is cancelled.
cancel_found_keep_completed(interview_id) ==
    LET hr_manager == interviews[interview_id].hr_manager_id
        interviewer == interviews[interview_id].interviewer_id
        users1 == IF get_user(hr_manager)
                  THEN [users EXCEPT ![hr_manager] =
                            remove_scheduled_interview(@, interview_id)]
                  ELSE users
        users2 == IF get_user(interviewer)
                  THEN [users1 EXCEPT ![interviewer] =
                            remove_scheduled_interview(@, interview_id)]
                  ELSE users1
    IN  /\ interviews' =
                IF interviews[interview_id].status = "COMPLETED"
                THEN interviews
                ELSE [interviews EXCEPT ![interview_id].status = "CANCELLED"]
        /\ users' = users2
        /\ last' = Result("cancel_interview", interview_id, "true")
        /\ UNCHANGED <<user_next_id, interview_next_id>>

\* Seeded fault: only the HR manager's booking set is updated.
cancel_found_hr_only(interview_id) ==
    LET hr_manager == interviews[interview_id].hr_manager_id
        users1 == IF get_user(hr_manager)
                  THEN [users EXCEPT ![hr_manager] =
                            remove_scheduled_interview(@, interview_id)]
                  ELSE users
    IN  /\ interviews' =
                [interviews EXCEPT ![interview_id].status = "CANCELLED"]
        /\ users' = users1
        /\ last' = Result("cancel_interview", interview_id, "true")
        /\ UNCHANGED <<user_next_id, interview_next_id>>

cancel_found(interview_id) ==
    LET hr_manager == interviews[interview_id].hr_manager_id
        interviewer == interviews[interview_id].interviewer_id
        users1 == IF get_user(hr_manager)
                  THEN [users EXCEPT ![hr_manager] =
                            remove_scheduled_interview(@, interview_id)]
                  ELSE users
        users2 == IF get_user(interviewer)
                  THEN [users1 EXCEPT ![interviewer] =
                            remove_scheduled_interview(@, interview_id)]
                  ELSE users1
    IN  /\ interviews' =
                [interviews EXCEPT ![interview_id].status = "CANCELLED"]
        /\ users' = users2
        /\ last' = Result("cancel_interview", interview_id, "true")
        /\ UNCHANGED <<user_next_id, interview_next_id>>

\* Seeded fault: an interview that is no longer SCHEDULED is left as it is.
cancel_interview_skip_inactive(interview_id) ==
    IF ~get_interview(interview_id)
    THEN /\ last' = Result("cancel_interview", interview_id, "false")
         /\ UNCHANGED engine
    ELSE IF interviews[interview_id].status # "SCHEDULED"
    THEN /\ last' = Result("cancel_interview", interview_id, "true")
         /\ UNCHANGED engine
    ELSE cancel_found(interview_id)

\* Seeded fault: cancelling an already cancelled interview is reported as a failure.
cancel_interview_reject_repeat(interview_id) ==
    IF ~get_interview(interview_id)
    THEN /\ last' = Result("cancel_interview", interview_id, "false")
         /\ UNCHANGED engine
    ELSE IF interviews[interview_id].status = "CANCELLED"
    THEN /\ last' = Result("cancel_interview", interview_id, "false")
         /\ UNCHANGED engine
    ELSE cancel_found(interview_id)

cancel_interview(interview_id) ==
    IF ~get_interview(interview_id)
    THEN /\ last' = Result("cancel_interview", interview_id, "false")
         /\ UNCHANGED engine
    ELSE cancel_found(interview_id)

\* The Interview setters, reached through get_interview(interview_id) of a
\* registered interview.
\* Seeded fault: making an interview SCHEDULED registers it again with its
\* two participants.
set_status_reregister(interview_id, new_status) ==
    /\ get_interview(interview_id)
    /\ interviews' = [interviews EXCEPT ![interview_id].status = new_status]
    /\ users' =
         IF new_status = "SCHEDULED"
         THEN [p \in DOMAIN users |->
                 IF p \in {interviews[interview_id].hr_manager_id,
                           interviews[interview_id].interviewer_id}
                 THEN add_scheduled_interview(users[p], interview_id)
                 ELSE users[p]]
         ELSE users
    /\ last' = Result("set_status", 0, "")
    /\ UNCHANGED <<user_next_id, interview_next_id>>

\* Seeded fault: an interview that stops being SCHEDULED is taken out of the
\* booking sets of its two participants.
set_status_unregister(interview_id, new_status) ==
    /\ get_interview(interview_id)
    /\ interviews' = [interviews EXCEPT ![interview_id].status = new_status]
    /\ users' =
         IF new_status # "SCHEDULED"
         THEN [p \in DOMAIN users |->
                 IF p \in {interviews[interview_id].hr_manager_id,
                           interviews[interview_id].interviewer_id}
                 THEN remove_scheduled_interview(users[p], interview_id)
                 ELSE users[p]]
         ELSE users
    /\ last' = Result("set_status", 0, "")
    /\ UNCHANGED <<user_next_id, interview_next_id>>

set_status(interview_id, new_status) ==
    /\ get_interview(interview_id)
    /\ interviews' = [interviews EXCEPT ![interview_id].status = new_status]
    /\ last' = Result("set_status", 0, "")
    /\ UNCHANGED <<users, user_next_id, interview_next_id>>

set_notes(interview_id, new_notes) ==
    /\ get_interview(interview_id)
    /\ interviews' = [interviews EXCEPT ![interview_id].notes = new_notes]
    /\ last' = Result("set_notes", 0, "")
    /\ UNCHANGED <<users, user_next_id, interview_next_id>>

\* Seeded fault: moving the slot also marks the interview RESCHEDULED.
set_time_slot_reschedule(interview_id, new_slot) ==
    /\ get_interview(interview_id)
    /\ interviews' = [interviews EXCEPT ![interview_id].time_slot = new_slot,
                                        ![interview_id].status = "RESCHEDULED"]
    /\ last' = Result("set_time_slot", 0, "")
    /\ UNCHANGED <<users, user_next_id, interview_next_id>>

set_time_slot(interview_id, new_slot) ==
    /\ get_interview(interview_id)
    /\ interviews' = [interviews EXCEPT ![interview_id].time_slot = new_slot]
    /\ last' = Result("set_time_slot", 0, "")
    /\ UNCHANGED <<users, user_next_id, interview_next_id>>

\* ----------------------------------------------------------------- queries
\* The ids of a set in ascending order: the iteration order of std::set and
\* of the keys of std::map.
RECURSIVE Ascending(_)
Ascending(S) ==
    IF S = {} THEN <<>>
    ELSE LET m == CHOOSE x \in S : \A y \in S : x <= y
         IN  <<m>> \o Ascending(S \ {m})

\* The Interview pointers returned are modelled by the interviews' ids.
\* Seeded fault: the interviews are looked up in the registry by participant.
get_user_interviews_by_registry(user_id) ==
    IF ~get_user(user_id) THEN <<>>
    ELSE Ascending({interview_id \in DOMAIN interviews :
                        \/ interviews[interview_id].hr_manager_id = user_id
                        \/ interviews[interview_id].interviewer_id = user_id})

get_user_interviews(user_id) ==
    IF ~get_user(user_id) THEN <<>>
    ELSE Ascending({interview_id \in users[user_id].scheduled_interviews :
                        interview_id \in DOMAIN interviews})

get_all_interviews == Ascending(DOMAIN interviews)

\* The read-only calls: the value returned is recorded, nothing is written.
has_conflict_call(user_id, time_slot) ==
    /\ last' = Result("has_conflict", 0,
                      IF has_conflict(user_id, time_slot) THEN "true"
                      ELSE "false")
    /\ UNCHANGED engine

get_user_interviews_call(user_id) ==
    /\ last' = Result("get_user_interviews",
                      Len(get_user_interviews(user_id)), "")
    /\ UNCHANGED engine

get_all_interviews_call ==
    /\ last' = Result("get_all_interviews", Len(get_all_interviews), "")
    /\ UNCHANGED engine

is_available_call(user_id, slot) ==
    /\ get_user(user_id)
    /\ last' = Result("is_available", 0,
                      IF is_available(users[user_id], slot) THEN "true"
                      ELSE "false")
    /\ UNCHANGED engine

\* TimeSlot::overlaps called on two slots; nothing is written.
overlaps_call(self, other) ==
    /\ last' = Result("overlaps", 0,
                      IF overlaps(self, other) THEN "true" ELSE "false")
    /\ UNCHANGED engine

AddUser == \E role \in UserRole : add_user(role)
AddAvailability == \E u \in UserIdArgs, s \in Windows : add_availability(u, s)
ScheduleInterview ==
    \E c \in Candidates, p \in Positions, h \in UserIdArgs, i \in UserIdArgs,
       s \in BookingSlots : schedule_interview(c, p, h, i, s)
CancelInterview == \E id \in InterviewIdArgs : cancel_interview(id)
\* A caller-driven transition of the status state machine: out of SCHEDULED.
StatusTransition ==
    \E id \in InterviewIdArgs, st \in InterviewStatus \ {"SCHEDULED"} :
        /\ get_interview(id)
        /\ interviews[id].status = "SCHEDULED"
        /\ set_status(id, st)
SetStatus == \E id \in InterviewIdArgs, st \in InterviewStatus : set_status(id, st)
SetNotes == \E id \in InterviewIdArgs, n \in Notes : set_notes(id, n)
SetTimeSlot == \E id \in InterviewIdArgs, s \in BookingSlots : set_time_slot(id, s)

\* The engine operations and the status transitions of the state machine.
Next ==
    \/ AddUser
    \/ AddAvailability
    \/ ScheduleInterview
    \/ CancelInterview
    \/ StatusTransition

Spec == Init /\ [][Next]_vars

\* Every public mutator, the Interview setters unrestricted, for one
\* participant fewer than Next registers.
NextFull ==
    \/ user_next_id < MaxUsers /\ AddUser
    \/ AddAvailability
    \/ ScheduleInterview
    \/ CancelInterview
    \/ SetStatus
    \/ SetNotes
    \/ SetTimeSlot

SpecFull == Init /\ [][NextFull]_vars

\* The engine operations and the read-only calls, for one participant fewer
\* than Next registers and one availability window more per participant.
MoreAvailability ==
    \E u \in UserIdArgs, s \in Windows :
        add_availability_upto(u, s, MaxAvail + 1)
HasConflict ==
    \E u \in UserIdArgs, s \in BookingSlots : has_conflict_call(u, s)
GetUserInterviews == \E u \in UserIdArgs : get_user_interviews_call(u)
GetAllInterviews == get_all_interviews_call
IsAvailable == \E u \in UserIdArgs, s \in BookingSlots : is_available_call(u, s)

NextQuery ==
    \/ user_next_id < MaxUsers /\ AddUser
    \/ MoreAvailability
    \/ ScheduleInterview
    \/ CancelInterview
    \/ StatusTransition
    \/ HasConflict
    \/ GetUserInterviews
    \/ GetAllInterviews
    \/ IsAvailable

SpecQuery == Init /\ [][NextQuery]_vars

\* One participant, whose windows are any slots a caller can construct, and
\* the calls on slots and windows.
AnyAvailability ==
    \E u \in UserIdArgs, s \in Slots :
        add_availability_upto(u, s, MaxAvail + 1)
Overlaps == \E a \in Slots, b \in Slots : overlaps_call(a, b)
IsAvailableAny == \E u \in UserIdArgs, s \in Slots : is_available_call(u, s)

NextSlots ==
    \/ user_next_id = 1 /\ AddUser
    \/ AnyAvailability
    \/ Overlaps
    \/ IsAvailableAny

SpecSlots == Init /\ [][NextSlots]_vars

\* The engine operations with set_status to any status from any status; every
\* window is the whole day.
WholeDayAvailability ==
    \E u \in UserIdArgs : add_availability(u, TimeSlot(0, MaxTime))

NextStatus ==
    \/ AddUser
    \/ WholeDayAvailability
    \/ ScheduleInterview
    \/ CancelInterview
    \/ SetStatus

SpecStatus == Init /\ [][NextStatus]_vars

TypeOK ==
    /\ user_next_id \in 1..(MaxUsers + 1)
    /\ interview_next_id \in 1..(MaxInterviews + 1)
    /\ DOMAIN users = 1..(user_next_id - 1)
    /\ DOMAIN interviews = 1..(interview_next_id - 1)

\* ================================================================== claims
\* Helpers that restate the claims' vocabulary directly on the state, without
\* the operators that model the code.
References(x, p) ==
    interviews[x].hr_manager_id = p \/ interviews[x].interviewer_id = p
SlotsOverlap(a, b) == a.start_time < b.end_time /\ a.end_time > b.start_time
WindowContains(w, s) == w.start_time <= s.start_time /\ s.end_time <= w.end_time
Known(p) == p \in DOMAIN users
AvailableAt(p, s) ==
    \E k \in 1..Len(users[p].availability) :
        WindowContains(users[p].availability[k], s)
ActiveConflict(p, s) ==
    \E x \in users[p].scheduled_interviews \cap DOMAIN interviews :
        /\ interviews[x].status = "SCHEDULED"
        /\ SlotsOverlap(interviews[x].time_slot, s)
ErrorKind(msg) ==
    CASE msg = "" -> "none"
      [] msg = "Invalid user ID" -> "UnknownParticipant"
      [] msg \in {"User is not an HR manager", "User is not an interviewer"}
            -> "RoleMismatch"
      [] msg \in {"HR manager is not available at this time",
                  "Interviewer is not available at this time"}
            -> "NotAvailable"
      [] msg = "Time slot conflicts with existing interview" -> "SlotConflict"
      [] OTHER -> "other"
BookingSucceeded == last.op = "schedule_interview" /\ last.err = ""
BookingFailed == last.op = "schedule_interview" /\ last.err # ""

\* C1: no double-booking. In every reachable state, two distinct SCHEDULED
\* interviews that reference the same participant have non-overlapping slots.
C1_NoDoubleBooking ==
    \A p \in DOMAIN users : \A a, b \in DOMAIN interviews :
        (/\ a # b
         /\ interviews[a].status = "SCHEDULED"
         /\ interviews[b].status = "SCHEDULED"
         /\ References(a, p) /\ References(b, p))
        => ~(/\ interviews[a].time_slot.start_time
                    < interviews[b].time_slot.end_time
             /\ interviews[a].time_slot.end_time
                    > interviews[b].time_slot.start_time)

\* Two SCHEDULED interviews share a participant, and a third booking for that
\* participant has just been refused as a conflict.
C1_Witness ==
    /\ last.op = "schedule_interview"
    /\ ErrorKind(last.err) = "SlotConflict"
    /\ \E p \in DOMAIN users : \E a, b \in DOMAIN interviews :
        /\ a # b
        /\ interviews[a].status = "SCHEDULED"
        /\ interviews[b].status = "SCHEDULED"
        /\ References(a, p) /\ References(b, p)

\* C2: atomicity of booking. A schedule_interview call that throws leaves the
\* registries, every booking set, every availability list, every status and
\* both id counters as they were.
C2_Atomicity ==
    [][(last'.op = "schedule_interview" /\ last'.err # "")
        => (/\ users' = users
            /\ interviews' = interviews
            /\ user_next_id' = user_next_id
            /\ interview_next_id' = interview_next_id)]_vars

\* A booking has just failed on the last check (the conflict check) in an
\* engine that holds an interview and booking sets to preserve.
C2_Witness ==
    /\ BookingFailed
    /\ ErrorKind(last.err) = "SlotConflict"
    /\ \E p \in DOMAIN users : users[p].scheduled_interviews # {}

\* C3: error precedence. The failure a schedule_interview call reports is the
\* first, in the order UnknownParticipant, RoleMismatch, NotAvailable,
\* SlotConflict, whose condition holds for the call's arguments.
C3_Expected(h, i, s) ==
    IF ~Known(h) \/ ~Known(i) THEN "UnknownParticipant"
    ELSE IF users[h].role # "HR_MANAGER" \/ users[i].role # "INTERVIEWER"
    THEN "RoleMismatch"
    ELSE IF ~AvailableAt(h, s) \/ ~AvailableAt(i, s) THEN "NotAvailable"
    ELSE IF ActiveConflict(h, s) \/ ActiveConflict(i, s) THEN "SlotConflict"
    ELSE "none"

C3_ErrorPrecedence ==
    /\ \A h \in UserIdArgs, i \in UserIdArgs, s \in BookingSlots :
            ErrorKind(schedule_error(h, i, s)) = C3_Expected(h, i, s)
    /\ BookingFailed
        => /\ ErrorKind(last.err) \in {"UnknownParticipant", "RoleMismatch",
                                       "NotAvailable", "SlotConflict"}
           /\ \E h \in UserIdArgs, i \in UserIdArgs, s \in BookingSlots :
                /\ schedule_error(h, i, s) = last.err
                /\ C3_Expected(h, i, s) = ErrorKind(last.err)

\* A RoleMismatch has just been reported in a state where no participant has
\* any availability: the call also met the NotAvailable condition, which
\* comes later in the order.
C3_Witness ==
    /\ BookingFailed
    /\ ErrorKind(last.err) = "RoleMismatch"
    /\ Cardinality(DOMAIN users) >= 2
    /\ \A p \in DOMAIN users : users[p].availability = <<>>

\* C4: schedule_interview succeeds (returns an id > 0 that get_interview
\* resolves) exactly when both ids are registered, the first is an HR_MANAGER
\* and the second an INTERVIEWER, each has a window containing the slot, and
\* neither has an active SCHEDULED interview overlapping it; otherwise it
\* fails.
C4_Bookable(h, i, s) ==
    /\ Known(h) /\ Known(i)
    /\ users[h].role = "HR_MANAGER" /\ users[i].role = "INTERVIEWER"
    /\ AvailableAt(h, s) /\ AvailableAt(i, s)
    /\ ~ActiveConflict(h, s) /\ ~ActiveConflict(i, s)

C4_SuccessIff ==
    /\ [](\A h \in UserIdArgs, i \in UserIdArgs, s \in BookingSlots :
            C4_Bookable(h, i, s) <=> schedule_error(h, i, s) = "")
    /\ [][last'.op = "schedule_interview"
            => \/ last'.err # "" /\ interviews' = interviews
               \/ /\ last'.err = ""
                  /\ last'.ret > 0
                  /\ last'.ret \in DOMAIN interviews'
                  /\ \E h \in UserIdArgs, i \in UserIdArgs,
                        s \in BookingSlots : C4_Bookable(h, i, s)]_vars

\* A booking has just succeeded for a slot that exactly fills the
\* interviewer's window while the HR manager has a wider one.
C4_Witness ==
    /\ BookingSucceeded
    /\ last.ret \in DOMAIN interviews
    /\ interviews[last.ret].time_slot = TimeSlot(0, 1)
    /\ users[interviews[last.ret].interviewer_id].availability
            = <<TimeSlot(0, 1)>>
    /\ users[interviews[last.ret].hr_manager_id].availability
            = <<TimeSlot(0, MaxTime)>>

\* C5: a successful schedule_interview adds exactly one record, SCHEDULED and
\* carrying the given HR manager, interviewer and slot; its id is put in the
\* booking sets of both participants and is the value returned.
C5_BookingPost ==
    [][(last'.op = "schedule_interview" /\ last'.err = "")
        => \A c \in Candidates, p \in Positions, h \in UserIdArgs,
              i \in UserIdArgs, s \in BookingSlots :
            schedule_interview(c, p, h, i, s)
                => /\ last'.ret \notin DOMAIN interviews
                   /\ DOMAIN interviews' = DOMAIN interviews \cup {last'.ret}
                   /\ interviews'[last'.ret].interview_id = last'.ret
                   /\ interviews'[last'.ret].status = "SCHEDULED"
                   /\ interviews'[last'.ret].hr_manager_id = h
                   /\ interviews'[last'.ret].interviewer_id = i
                   /\ interviews'[last'.ret].time_slot = s
                   /\ last'.ret \in users'[h].scheduled_interviews
                   /\ last'.ret \in users'[i].scheduled_interviews]_vars

\* A second booking has just succeeded: the registry already held a record.
C5_Witness ==
    /\ BookingSucceeded
    /\ last.ret = 2
    /\ Cardinality(DOMAIN interviews) = 2
    /\ last.ret \in users[interviews[2].hr_manager_id].scheduled_interviews
    /\ last.ret \in users[interviews[2].interviewer_id].scheduled_interviews

\* C6 as stated: every id in a participant's booking set refers to a record
\* of the registry that is SCHEDULED and references that participant, also
\* after a caller has changed a status with set_status.
C6_BookingsScheduled ==
    \A p \in DOMAIN users : \A x \in users[p].scheduled_interviews :
        /\ x \in DOMAIN interviews
        /\ interviews[x].status = "SCHEDULED"
        /\ References(x, p)

C6_BookingsReferential ==
    \A p \in DOMAIN users : \A x \in users[p].scheduled_interviews :
        x \in DOMAIN interviews /\ References(x, p)

\* C6, amended: every id in a participant's booking set refers to a record of
\* the registry that references that participant, in every reachable state;
\* add_user, add_availability, schedule_interview and cancel_interview also
\* keep every such record SCHEDULED, and only a set_status call, which leaves
\* the booking sets alone, puts a non-SCHEDULED record in a booking set.
C6_BookingsAmended ==
    /\ []C6_BookingsReferential
    /\ [][(C6_BookingsScheduled /\ last'.op # "set_status")
            => C6_BookingsScheduled']_vars

\* set_status has marked an interview COMPLETED and its id is still in the
\* booking sets of both its participants.
C6_Witness ==
    /\ last.op = "set_status"
    /\ \E x \in DOMAIN interviews :
        /\ interviews[x].status = "COMPLETED"
        /\ x \in users[interviews[x].hr_manager_id].scheduled_interviews
        /\ x \in users[interviews[x].interviewer_id].scheduled_interviews

\* C7: cancel_interview(id) returns false and changes nothing when id is not
\* in the registry; otherwise it returns true, the record's status becomes
\* CANCELLED and id is in the booking set of neither of its participants.
C7_Cancel ==
    [][last'.op = "cancel_interview"
        => \A id \in InterviewIdArgs :
            cancel_interview(id)
                => IF id \notin DOMAIN interviews
                   THEN /\ last'.err = "false"
                        /\ users' = users
                        /\ interviews' = interviews
                        /\ user_next_id' = user_next_id
                        /\ interview_next_id' = interview_next_id
                   ELSE /\ last'.err = "true"
                        /\ interviews'[id].status = "CANCELLED"
                        /\ id \notin users'[interviews[id].hr_manager_id]
                                        .scheduled_interviews
                        /\ id \notin users'[interviews[id].interviewer_id]
                                        .scheduled_interviews]_vars

\* The only interview of the registry has just been cancelled: it is
\* CANCELLED and in no booking set.
C7_Witness ==
    /\ last.op = "cancel_interview" /\ last.err = "true"
    /\ last.ret \in DOMAIN interviews
    /\ interviews[last.ret].status = "CANCELLED"
    /\ \A p \in DOMAIN users : last.ret \notin users[p].scheduled_interviews
    /\ Cardinality(DOMAIN interviews) = 1

\* C8: idempotent cancellation. cancel_interview of an id of the registry
\* returns true, and calling it again right after it returned true returns
\* true again and leaves users, interviews and the counters as the first call
\* left them.
C8_CancelIdempotent ==
    [][last'.op = "cancel_interview"
        => \A id \in InterviewIdArgs :
            cancel_interview(id)
                => /\ id \in DOMAIN interviews => last'.err = "true"
                   /\ last = Result("cancel_interview", id, "true")
                        => /\ last'.err = "true"
                           /\ users' = users
                           /\ interviews' = interviews
                           /\ user_next_id' = user_next_id
                           /\ interview_next_id' = interview_next_id]_vars

\* cancel_interview has returned true for one of two interviews; the other
\* is still SCHEDULED and in the booking sets.
C8_Witness ==
    /\ last.op = "cancel_interview" /\ last.err = "true"
    /\ Cardinality(DOMAIN interviews) = 2
    /\ interviews[last.ret].status = "CANCELLED"
    /\ \E y \in DOMAIN interviews :
        /\ y # last.ret
        /\ interviews[y].status = "SCHEDULED"
        /\ y \in users[interviews[y].hr_manager_id].scheduled_interviews

\* C9: cancellation frees capacity. Let x be a record that cancel_interview
\* cancelled (CANCELLED and out of its participants' booking sets), booked
\* for hr and iv at slot s. A schedule_interview at s succeeds for hr and iv,
\* or for one of them and a counterpart of the right role who is available at
\* s and has no conflicting booking, unless hr or iv (whichever takes part)
\* has a SCHEDULED interview overlapping s that was booked after x.
C9_BookedAfter(x, q, s) ==
    \E y \in DOMAIN interviews :
        /\ y > x
        /\ interviews[y].status = "SCHEDULED"
        /\ References(y, q)
        /\ SlotsOverlap(interviews[y].time_slot, s)

C9_Free(x, q, s) ==
    IF q \in {interviews[x].hr_manager_id, interviews[x].interviewer_id}
    THEN ~C9_BookedAfter(x, q, s)
    ELSE AvailableAt(q, s) /\ ~ActiveConflict(q, s)

C10_IdsNeverReused ==
    /\ [](\A x \in DOMAIN interviews :
            x < interview_next_id /\ interviews[x].interview_id = x)
    /\ [][interview_next_id' >= interview_next_id]_vars
    /\ [][(last'.op = "schedule_interview" /\ last'.err = "")
            => /\ last'.ret = interview_next_id
               /\ interview_next_id' > last'.ret
               /\ DOMAIN interviews = {} => last'.ret = 1
               /\ \A x \in DOMAIN interviews :
                    /\ last'.ret > x
                    /\ x \in DOMAIN interviews'
                    /\ interviews'[x] = interviews[x]]_vars
    /\ [][last'.op = "cancel_interview"
            => /\ DOMAIN interviews' = DOMAIN interviews
               /\ interview_next_id' = interview_next_id]_vars

\* The slot of cancelled interview 1 has just been booked again for the same
\* pair: the new record is 2 and record 1 is still there, CANCELLED.
C10_Witness ==
    /\ BookingSucceeded
    /\ last.ret = 2
    /\ interviews[1].status = "CANCELLED"
    /\ interviews[1].interview_id = 1
    /\ interviews[2].time_slot = interviews[1].time_slot
    /\ interviews[2].hr_manager_id = interviews[1].hr_manager_id
    /\ interviews[2].interviewer_id = interviews[1].interviewer_id
\* ------------------------------------------------------------------- C11
\* C11: availability containment. In every state reached by add_user,
\* add_availability, schedule_interview and cancel_interview (and the
\* read-only calls), the slot of every interview in the registry lies inside
\* (window start <= slot start and slot end <= window end) at least one
\* availability window of its HR manager and at least one of its interviewer;
\* a later add_availability leaves the registry and every booking set as they
\* were: no booking is re-checked or invalidated.
C11_Contained ==
    \A x \in DOMAIN interviews :
        /\ Known(interviews[x].hr_manager_id)
        /\ Known(interviews[x].interviewer_id)
        /\ AvailableAt(interviews[x].hr_manager_id, interviews[x].time_slot)
        /\ AvailableAt(interviews[x].interviewer_id, interviews[x].time_slot)

C11_AvailabilityContainment ==
    /\ []C11_Contained
    /\ [][last'.op = "add_availability"
            => /\ interviews' = interviews
               /\ \A p \in DOMAIN users :
                    /\ users'[p].scheduled_interviews
                         = users[p].scheduled_interviews
                    /\ \A k \in 1..Len(users[p].availability) :
                         users'[p].availability[k] = users[p].availability[k]
          ]_vars

\* A window was added after interview 1 was booked, and the HR manager's
\* second window does not contain the booked slot: the booking stands.
C11_Witness ==
    /\ last.op = "add_availability"
    /\ 1 \in DOMAIN interviews
    /\ interviews[1].status = "SCHEDULED"
    /\ LET hr == interviews[1].hr_manager_id
       IN  /\ Len(users[hr].availability) = MaxAvail + 1
           /\ ~WindowContains(users[hr].availability[MaxAvail + 1],
                              interviews[1].time_slot)
           /\ 1 \in users[hr].scheduled_interviews

\* ------------------------------------------------------------------- C12
\* The ids get_user_interviews returns for a participant.
Returned(p) ==
    {get_user_interviews(p)[k] : k \in 1..Len(get_user_interviews(p))}

\* C12 as stated: get_user_interviews returns exactly the interviews whose
\* ids are in the participant's scheduled_interviews, none of them CANCELLED,
\* and an empty sequence for an unknown id.
C12_NeverReturnsCancelled ==
    \A p \in UserIdArgs :
        IF ~Known(p) THEN get_user_interviews(p) = <<>>
        ELSE /\ Returned(p) = users[p].scheduled_interviews
             /\ \A x \in Returned(p) : interviews[x].status # "CANCELLED"

\* C12 amended: get_user_interviews returns, once each, exactly the
\* interviews whose ids are in the participant's scheduled_interviews, and an
\* empty sequence for an unknown id; an interview cancelled by
\* cancel_interview stays in the registry as CANCELLED and is returned for no
\* participant afterwards; every operation other than set_status that makes
\* an interview CANCELLED takes its id out of every booking set, so a
\* CANCELLED interview is returned only after set_status made it CANCELLED.
C12_ReturnsExactly ==
    \A p \in UserIdArgs :
        IF ~Known(p) THEN get_user_interviews(p) = <<>>
        ELSE /\ Returned(p) = users[p].scheduled_interviews
             /\ Len(get_user_interviews(p)) = Cardinality(Returned(p))
             /\ Returned(p) \subseteq DOMAIN interviews

C12_ReturnsAmended ==
    /\ []C12_ReturnsExactly
    /\ [][(last'.op = "cancel_interview" /\ last'.err = "true")
            => /\ last'.ret \in DOMAIN interviews'
               /\ interviews'[last'.ret].status = "CANCELLED"
               /\ \A p \in UserIdArgs : last'.ret \notin Returned(p)'
          ]_vars
    /\ [][(last'.op # "set_status" /\ interviews' # interviews)
            => \A x \in DOMAIN interviews :
                 (/\ interviews[x].status # "CANCELLED"
                  /\ interviews'[x].status = "CANCELLED")
                    => \A p \in DOMAIN users' :
                         x \notin users'[p].scheduled_interviews
          ]_vars

\* Interview 1 was cancelled by cancel_interview; interview 2 of the same HR
\* manager was made CANCELLED by set_status. The query on the HR manager has
\* just returned one interview, number 2; the id never handed out gives an
\* empty sequence.
C12_Witness ==
    /\ last.op = "get_user_interviews"
    /\ last.ret = 1
    /\ DOMAIN interviews = {1, 2}
    /\ interviews[1].status = "CANCELLED"
    /\ interviews[2].status = "CANCELLED"
    /\ interviews[1].hr_manager_id = interviews[2].hr_manager_id
    /\ get_user_interviews(interviews[1].hr_manager_id) = <<2>>
    /\ ~Known(MaxUsers)
    /\ get_user_interviews(MaxUsers) = <<>>

\* ------------------------------------------------------------------- C13
\* C13: soft delete. The registry never shrinks: no step removes a record,
\* and only a successful schedule_interview adds one, the record it returns,
\* so the registry holds as many records as there were successful bookings
\* (the records 1 .. interview_next_id - 1). get_all_interviews lists every
\* record, whatever its status. After a successful cancel_interview the
\* record is still found by get_interview and listed by get_all_interviews,
\* with status CANCELLED.
C13_AllListed ==
    /\ DOMAIN interviews = 1..(interview_next_id - 1)
    /\ Len(get_all_interviews) = interview_next_id - 1
    /\ \A x \in DOMAIN interviews :
         \E k \in 1..Len(get_all_interviews) : get_all_interviews[k] = x

C13_SoftDelete ==
    /\ []C13_AllListed
    /\ [][DOMAIN interviews \subseteq DOMAIN interviews']_vars
    /\ [][IF last'.op = "schedule_interview" /\ last'.err = ""
          THEN /\ last'.ret \notin DOMAIN interviews
               /\ DOMAIN interviews' = DOMAIN interviews \cup {last'.ret}
          ELSE DOMAIN interviews' = DOMAIN interviews]_vars
    /\ [][(last'.op = "cancel_interview" /\ last'.err = "true")
            => /\ \E x \in DOMAIN interviews :
                    /\ x = last'.ret
                    /\ get_interview(x)'
                    /\ interviews'[x].status = "CANCELLED"
                    /\ \E k \in 1..Len(get_all_interviews') :
                         get_all_interviews'[k] = x
               /\ Len(get_all_interviews') = Len(get_all_interviews)
          ]_vars

\* Two bookings succeeded and both interviews were cancelled afterwards:
\* get_all_interviews has just returned two records, both CANCELLED.
C13_Witness ==
    /\ last.op = "get_all_interviews"
    /\ last.ret = 2
    /\ get_all_interviews = <<1, 2>>
    /\ get_interview(1)
    /\ interviews[1].status = "CANCELLED"
    /\ interviews[2].status = "CANCELLED"
    /\ \A p \in DOMAIN users : users[p].scheduled_interviews = {}

\* ------------------------------------------------------------------- C14
\* C14 as stated: once the status of an interview is COMPLETED or CANCELLED,
\* no later step changes it to a different value.
C14_Terminal ==
    [][\A x \in DOMAIN interviews :
         interviews[x].status \in {"COMPLETED", "CANCELLED"}
            => interviews'[x].status = interviews[x].status]_vars

\* C14 amended: a CANCELLED interview keeps its status in every step that is
\* not a set_status; a COMPLETED interview keeps it in every step that is
\* neither a set_status nor a cancel_interview of that interview, and
\* cancel_interview makes it CANCELLED like any other interview it finds.
\* set_status is not restricted by the current status.
C14_TerminalAmended ==
    /\ [][(last'.op # "set_status" /\ interviews' # interviews)
            => \A x \in DOMAIN interviews :
                 /\ interviews[x].status = "CANCELLED"
                      => interviews'[x].status = "CANCELLED"
                 /\ interviews[x].status = "COMPLETED"
                      => \/ interviews'[x].status = "COMPLETED"
                         \/ /\ last'.op = "cancel_interview"
                            /\ last'.ret = x
                            /\ interviews'[x].status = "CANCELLED"
          ]_vars
    /\ [][(last'.op = "cancel_interview" /\ last'.err = "true")
            => \E x \in DOMAIN interviews :
                 /\ x = last'.ret
                 /\ interviews'[x].status = "CANCELLED"]_vars
    /\ [][(last'.op = "schedule_interview")
            => \A x \in DOMAIN interviews :
                 interviews'[x].status = interviews[x].status]_vars

\* Interview 1 was cancelled (cancel_interview took it out of the booking
\* sets) and set_status has since made it SCHEDULED again; interview 2 has
\* just been cancelled.
C14_Witness ==
    /\ last.op = "cancel_interview"
    /\ last.ret = 2
    /\ DOMAIN interviews = {1, 2}
    /\ interviews[1].status = "SCHEDULED"
    /\ 1 \notin users[interviews[1].hr_manager_id].scheduled_interviews
    /\ 1 \notin users[interviews[1].interviewer_id].scheduled_interviews
    /\ interviews[2].status = "CANCELLED"

\* ------------------------------------------------------------------- C15
\* The SCHEDULED interviews in the booking set of participant p.
ActiveScheduled(p) ==
    {x \in users[p].scheduled_interviews \cap DOMAIN interviews :
        interviews[x].status = "SCHEDULED"}

\* Slot s starts exactly where slot b ends, or ends exactly where b starts.
Touches(s, b) == s.start_time = b.end_time \/ s.end_time = b.start_time

\* C15: touching endpoints do not conflict. For every booking request whose
\* participants, roles and availability pass: if a participant has a
\* SCHEDULED interview at [a, b) and the requested slot has start < b and
\* end > a, the request is rejected with SlotConflict; and a request is
\* rejected with SlotConflict only then, so a slot that merely starts at b
\* or ends at a is not rejected because of that interview.
C15_TouchingEndpoints ==
    \A h \in UserIdArgs, i \in UserIdArgs, s \in BookingSlots :
        LET kind == ErrorKind(schedule_error(h, i, s))
            strict(p) ==
                \E x \in ActiveScheduled(p) :
                    /\ s.start_time < interviews[x].time_slot.end_time
                    /\ s.end_time > interviews[x].time_slot.start_time
        IN  kind \in {"none", "SlotConflict"}
               => /\ (strict(h) \/ strict(i)) => kind = "SlotConflict"
                  /\ kind = "SlotConflict" => (strict(h) \/ strict(i))
                  /\ (\A p \in {h, i} : \A x \in ActiveScheduled(p) :
                        Touches(s, interviews[x].time_slot)
                        /\ interviews[x].time_slot.start_time
                             < interviews[x].time_slot.end_time
                        /\ s.start_time < s.end_time)
                       => kind = "none"

\* Interview 2 has just been booked for the HR manager and the interviewer
\* of interview 1 at the slot that starts where interview 1 ends; a request
\* for the same pair over the whole day is rejected with SlotConflict.
C15_Witness ==
    /\ BookingSucceeded
    /\ last.ret = 2
    /\ interviews[1].status = "SCHEDULED"
    /\ interviews[2].status = "SCHEDULED"
    /\ interviews[1].hr_manager_id = interviews[2].hr_manager_id
    /\ interviews[1].interviewer_id = interviews[2].interviewer_id
    /\ interviews[1].time_slot.start_time < interviews[1].time_slot.end_time
    /\ interviews[2].time_slot.start_time = interviews[1].time_slot.end_time
    /\ interviews[2].time_slot.start_time < interviews[2].time_slot.end_time
    /\ ErrorKind(schedule_error(interviews[1].hr_manager_id,
                                interviews[1].interviewer_id,
                                TimeSlot(0, MaxTime))) = "SlotConflict"

\* ------------------------------------------------------------------- C16
\* C16: has_conflict(user_id, slot) is true exactly when some id in the
\* booking set of that participant resolves to an interview with status
\* SCHEDULED whose slot overlaps the argument slot; it is false for an
\* unknown participant id; the call changes no engine state.
C16_ConflictExactly ==
    \A p \in UserIdArgs, s \in BookingSlots :
        has_conflict(p, s)
          <=> /\ Known(p)
              /\ \E x \in users[p].scheduled_interviews :
                   /\ x \in DOMAIN interviews
                   /\ interviews[x].status = "SCHEDULED"
                   /\ SlotsOverlap(interviews[x].time_slot, s)

C16_ConflictCheck ==
    /\ []C16_ConflictExactly
    /\ [](\A p \in UserIdArgs, s \in BookingSlots :
            ~Known(p) => ~has_conflict(p, s))
    /\ [][last'.op = "has_conflict"
            => /\ UNCHANGED engine
               /\ last'.err \in {"true", "false"}]_vars

\* has_conflict has just answered true. The HR manager of interviews 1 and 2
\* holds both ids: interview 1 is COMPLETED, interview 2 is SCHEDULED. The
\* check is true on the slot of interview 2 and false on the slot of
\* interview 1, which touches it, and false for the id never handed out.
C16_Witness ==
    /\ last.op = "has_conflict"
    /\ last.err = "true"
    /\ DOMAIN interviews = {1, 2}
    /\ interviews[1].status = "COMPLETED"
    /\ interviews[2].status = "SCHEDULED"
    /\ interviews[1].hr_manager_id = interviews[2].hr_manager_id
    /\ users[interviews[1].hr_manager_id].scheduled_interviews = {1, 2}
    /\ interviews[1].time_slot = TimeSlot(0, 1)
    /\ interviews[2].time_slot = TimeSlot(1, MaxTime)
    /\ has_conflict(interviews[1].hr_manager_id, TimeSlot(1, MaxTime))
    /\ ~has_conflict(interviews[1].hr_manager_id, TimeSlot(0, 1))
    /\ ~Known(MaxUsers)
    /\ ~has_conflict(MaxUsers, TimeSlot(1, MaxTime))

\* ------------------------------------------------------------------- C17
\* The same windows, each as many times, whatever the order.
SameWindows(a, b) ==
    /\ Len(a) = Len(b)
    /\ \A k \in 1..Len(a) :
         Cardinality({j \in 1..Len(a) : a[j] = a[k]})
           = Cardinality({j \in 1..Len(b) : b[j] = a[k]})

Reversed(a) == [k \in 1..Len(a) |-> a[Len(a) + 1 - k]]

\* C17: is_available(slot) is true exactly when at least one window w of the
\* participant's availability has w.start <= slot.start and slot.end <=
\* w.end; the answer is the same for the windows in the opposite order and
\* for any participant who holds the same windows in another order; a
\* participant with no windows is available for no slot.
C17_IsAvailable ==
    \A p \in DOMAIN users, s \in Slots :
        /\ is_available(users[p], s)
             <=> \E k \in 1..Len(users[p].availability) :
                   /\ users[p].availability[k].start_time <= s.start_time
                   /\ s.end_time <= users[p].availability[k].end_time
        /\ is_available(users[p], s)
             = is_available([users[p] EXCEPT
                               !.availability = Reversed(@)], s)
        /\ \A q \in DOMAIN users :
             SameWindows(users[p].availability, users[q].availability)
                => is_available(users[p], s) = is_available(users[q], s)
        /\ users[p].availability = <<>> => ~is_available(users[p], s)

\* is_available has just answered true. Participant 1 holds two windows and
\* only the second contains the afternoon slot; participant 2 holds the same
\* windows in the opposite order; both are available for the afternoon slot.
C17_Witness ==
    /\ last.op = "is_available"
    /\ last.err = "true"
    /\ DOMAIN users = {1, 2}
    /\ users[1].availability = <<TimeSlot(0, 1), TimeSlot(0, MaxTime)>>
    /\ users[2].availability = <<TimeSlot(0, MaxTime), TimeSlot(0, 1)>>
    /\ is_available(users[1], TimeSlot(1, MaxTime))
    /\ is_available(users[2], TimeSlot(1, MaxTime))

\* ------------------------------------------------------------------- C18
\* C18: overlaps is symmetric, a.overlaps(b) = b.overlaps(a) for all slots a
\* and b, the windows a participant holds included; two slots with the same
\* bounds overlap when the duration is greater than zero and do not overlap
\* when the duration is zero.
C18_OverlapsSymmetric ==
    /\ \A a \in Slots, b \in Slots :
         /\ overlaps(a, b) = overlaps(b, a)
         /\ (a = b /\ a.end_time - a.start_time > 0) => overlaps(a, b)
         /\ (a = b /\ a.end_time - a.start_time = 0) => ~overlaps(a, b)
    /\ \A p \in DOMAIN users :
         \A k \in 1..Len(users[p].availability), s \in Slots :
           overlaps(users[p].availability[k], s)
             = overlaps(s, users[p].availability[k])

\* overlaps has just answered true. The participant holds the same window of
\* positive duration twice, which overlaps itself, and a slot of duration
\* zero inside it does not overlap itself.
C18_Witness ==
    /\ last.op = "overlaps"
    /\ last.err = "true"
    /\ DOMAIN users = {1}
    /\ Len(users[1].availability) = MaxAvail + 1
    /\ users[1].availability[1] = users[1].availability[MaxAvail + 1]
    /\ users[1].availability[1].start_time < users[1].availability[1].end_time
    /\ overlaps(users[1].availability[1], users[1].availability[MaxAvail + 1])
    /\ ~overlaps(TimeSlot(1, 1), TimeSlot(1, 1))

\* ------------------------------------------------------------------- C19
\* C19: TimeSlot well-formedness. Every time slot held in engine state, that
\* is every availability window of every participant and the slot of every
\* interview in the registry, has start < end.
C19_WellFormed ==
    /\ \A p \in DOMAIN users : \A k \in 1..Len(users[p].availability) :
         users[p].availability[k].start_time
           < users[p].availability[k].end_time
    /\ \A x \in DOMAIN interviews :
         interviews[x].time_slot.start_time < interviews[x].time_slot.end_time

\* ------------------------------------------------------------------- C20
\* C20: role correctness of stored interviews. In every reachable state the
\* hr_manager_id of every interview in the registry resolves to a participant
\* with role HR_MANAGER and its interviewer_id to a participant with role
\* INTERVIEWER, so the two ids differ; a schedule_interview call on
\* registered participants with the two roles swapped, or with the same
\* participant in both positions, fails with RoleMismatch whatever the slot.
C20_RoleCorrectness ==
    /\ \A x \in DOMAIN interviews :
         /\ Known(interviews[x].hr_manager_id)
         /\ Known(interviews[x].interviewer_id)
         /\ users[interviews[x].hr_manager_id].role = "HR_MANAGER"
         /\ users[interviews[x].interviewer_id].role = "INTERVIEWER"
         /\ interviews[x].hr_manager_id # interviews[x].interviewer_id
    /\ \A h \in DOMAIN users, i \in DOMAIN users, s \in BookingSlots :
         (\/ h = i
          \/ /\ users[h].role = "INTERVIEWER"
             /\ users[i].role = "HR_MANAGER")
            => ErrorKind(schedule_error(h, i, s)) = "RoleMismatch"

\* A booking of an available pair with the roles swapped has just failed with
\* RoleMismatch, and so does a booking with the HR manager in both positions;
\* interview 1 of the same pair, in the right order, is in the registry.
C20_Witness ==
    /\ BookingFailed
    /\ ErrorKind(last.err) = "RoleMismatch"
    /\ last.err = "User is not an HR manager"
    /\ 1 \in DOMAIN interviews
    /\ LET hr == interviews[1].hr_manager_id
           iv == interviews[1].interviewer_id
       IN  /\ schedule_error(iv, hr, TimeSlot(1, MaxTime))
                = "User is not an HR manager"
           /\ schedule_error(hr, hr, TimeSlot(1, MaxTime))
                = "User is not an interviewer"
           /\ is_available(users[hr], TimeSlot(1, MaxTime))
           /\ is_available(users[iv], TimeSlot(1, MaxTime))

\* ------------------------------------------------------------------- C21
\* C21: a cancelled id never comes back. An id leaves a booking set only in
\* cancel_interview, which takes it out of the sets of both participants; no
\* step of any operation, set_status to any status included, puts the id of
\* an interview of the registry into a booking set that does not hold it,
\* and a new participant starts with an empty booking set. So once
\* cancel_interview has removed an id, it is in no booking set ever after.
C21_NeverReadded ==
    /\ [][(last'.op = "cancel_interview" /\ last'.err = "true")
            => \A p \in DOMAIN users' :
                 last'.ret \notin users'[p].scheduled_interviews]_vars
    /\ [][users' # users
            => /\ \A p \in DOMAIN users, x \in DOMAIN interviews :
                    x \notin users[p].scheduled_interviews
                       => x \notin users'[p].scheduled_interviews
               /\ \A p \in DOMAIN users' \ DOMAIN users :
                    users'[p].scheduled_interviews = {}
               /\ \A p \in DOMAIN users :
                    users[p].scheduled_interviews
                        # users'[p].scheduled_interviews
                      => \/ last'.op = "cancel_interview"
                         \/ last'.op = "schedule_interview" /\ last'.err = ""
          ]_vars

\* Interview 1 was cancelled and set_status has made it SCHEDULED again; the
\* same pair has just booked interview 2: the booking sets of both hold
\* interview 2 only.
C21_Witness ==
    /\ BookingSucceeded
    /\ last.ret = 2
    /\ interviews[1].status = "SCHEDULED"
    /\ interviews[2].hr_manager_id = interviews[1].hr_manager_id
    /\ interviews[2].interviewer_id = interviews[1].interviewer_id
    /\ users[interviews[1].hr_manager_id].scheduled_interviews = {2}
    /\ users[interviews[1].interviewer_id].scheduled_interviews = {2}

\* ------------------------------------------------------------------- C22
\* At most one interview differs between the two states of the step.
OneInterviewChanges(x) ==
    /\ DOMAIN interviews' = DOMAIN interviews
    /\ \A y \in DOMAIN interviews \ {x} : interviews'[y] = interviews[y]

\* C22: the Interview setters are local. A set_status, set_notes or
\* set_time_slot step changes only the status, the notes or the slot of one
\* interview: the other fields of that interview, every other interview,
\* every participant (booking set and availability) and both id counters are
\* as before.
C22_SettersLocal ==
    /\ [][last'.op \in {"set_status", "set_notes", "set_time_slot"}
            => /\ users' = users
               /\ user_next_id' = user_next_id
               /\ interview_next_id' = interview_next_id]_vars
    /\ [][last'.op = "set_status"
            => \E x \in DOMAIN interviews :
                 /\ OneInterviewChanges(x)
                 /\ interviews'[x] = [interviews[x] EXCEPT
                                        !.status = interviews'[x].status]
          ]_vars
    /\ [][last'.op = "set_notes"
            => \E x \in DOMAIN interviews :
                 /\ OneInterviewChanges(x)
                 /\ interviews'[x] = [interviews[x] EXCEPT
                                        !.notes = interviews'[x].notes]
          ]_vars
    /\ [][last'.op = "set_time_slot"
            => \E x \in DOMAIN interviews :
                 /\ OneInterviewChanges(x)
                 /\ interviews'[x] = [interviews[x] EXCEPT
                                        !.time_slot = interviews'[x].time_slot]
          ]_vars

\* set_time_slot has just moved an interview onto the slot of the other
\* interview of the same pair: both are SCHEDULED at the same slot and both
\* ids are still in the booking sets of both participants.
C22_Witness ==
    /\ last.op = "set_time_slot"
    /\ DOMAIN interviews = {1, 2}
    /\ interviews[1].status = "SCHEDULED"
    /\ interviews[2].status = "SCHEDULED"
    /\ interviews[1].time_slot = interviews[2].time_slot
    /\ interviews[1].time_slot.start_time < interviews[1].time_slot.end_time
    /\ interviews[1].hr_manager_id = interviews[2].hr_manager_id
    /\ interviews[1].interviewer_id = interviews[2].interviewer_id
    /\ users[interviews[1].hr_manager_id].scheduled_interviews = {1, 2}
    /\ users[interviews[1].interviewer_id].scheduled_interviews = {1, 2}

\* ------------------------------------------------------------------- C23
\* C23: paired registration. In every state reached by add_user,
\* add_availability, schedule_interview, cancel_interview and set_status, the
\* id of an interview is in the booking set of its HR manager if and only if
\* it is in the booking set of its interviewer, and it is in the booking set
\* of no other participant.
C23_PairedRegistration ==
    \A x \in DOMAIN interviews :
        LET hr == interviews[x].hr_manager_id
            iv == interviews[x].interviewer_id
        IN  /\ Known(hr) /\ Known(iv)
            /\ x \in users[hr].scheduled_interviews
                 <=> x \in users[iv].scheduled_interviews
            /\ \A p \in DOMAIN users \ {hr, iv} :
                 x \notin users[p].scheduled_interviews

\* Three participants. Interview 1 was cancelled and set_status has just
\* made it SCHEDULED again: it is in neither booking set. Interview 2 of the
\* same HR manager with the other interviewer is in the sets of those two
\* and not in the set of the interviewer of interview 1.
C23_Witness ==
    /\ last.op = "set_status"
    /\ DOMAIN users = 1..MaxUsers
    /\ DOMAIN interviews = {1, 2}
    /\ interviews[1].status = "SCHEDULED"
    /\ interviews[2].status = "SCHEDULED"
    /\ interviews[1].hr_manager_id = interviews[2].hr_manager_id
    /\ interviews[1].interviewer_id # interviews[2].interviewer_id
    /\ users[interviews[1].hr_manager_id].scheduled_interviews = {2}
    /\ users[interviews[2].interviewer_id].scheduled_interviews = {2}
    /\ users[interviews[1].interviewer_id].scheduled_interviews = {}

\* ------------------------------------------------------------------- C24
\* C24: only SCHEDULED interviews block a slot. A set_status step leaves
\* every booking set as it was; an interview that set_status made COMPLETED
\* or RESCHEDULED is still in the booking sets of both participants and is
\* still returned by get_user_interviews for both, and it causes no
\* SlotConflict: a booking for its two participants at any slot, the
\* overlapping ones included, succeeds when both are available and no
\* SCHEDULED interview of either overlaps the slot.
C24_Inactive ==
    \A x \in DOMAIN interviews :
        interviews[x].status \in {"COMPLETED", "RESCHEDULED"}
          => LET hr == interviews[x].hr_manager_id
                 iv == interviews[x].interviewer_id
             IN  /\ x \in users[hr].scheduled_interviews
                 /\ x \in users[iv].scheduled_interviews
                 /\ x \in Returned(hr) /\ x \in Returned(iv)
                 /\ \A s \in BookingSlots :
                      (/\ AvailableAt(hr, s) /\ AvailableAt(iv, s)
                       /\ \A y \in ActiveScheduled(hr) \cup ActiveScheduled(iv) :
                            ~SlotsOverlap(interviews[y].time_slot, s))
                        => schedule_error(hr, iv, s) = ""

C24_OnlyScheduledBlocks ==
    /\ []C24_Inactive
    /\ [][last'.op = "set_status"
            => \A p \in DOMAIN users :
                 users'[p].scheduled_interviews
                    = users[p].scheduled_interviews]_vars

\* Interview 1 was made COMPLETED by set_status; interview 2 has just been
\* booked for the same pair at a slot that overlaps the slot of interview 1.
\* Both ids are in the booking sets and both interviews are returned.
C24_Witness ==
    /\ BookingSucceeded
    /\ last.ret = 2
    /\ interviews[1].status = "COMPLETED"
    /\ interviews[2].status = "SCHEDULED"
    /\ interviews[1].hr_manager_id = interviews[2].hr_manager_id
    /\ interviews[1].interviewer_id = interviews[2].interviewer_id
    /\ SlotsOverlap(interviews[1].time_slot, interviews[2].time_slot)
    /\ users[interviews[1].hr_manager_id].scheduled_interviews = {1, 2}
    /\ get_user_interviews(interviews[1].hr_manager_id) = <<1, 2>>
    /\ get_user_interviews(interviews[1].interviewer_id) = <<1, 2>>

\* ------------------------------------------------------------------- C25
\* C25: availability is append-only. An add_availability step appends its
\* window to the sequence of one participant, a duplicate or a window inside
\* an existing one included, and changes nothing else; no step of any
\* operation removes or alters a window, so a slot for which is_available is
\* true stays available in the next state; schedule_interview and
\* cancel_interview leave every availability sequence as it was.
C25_AppendOnly ==
    /\ [][last'.op = "add_availability"
            => \E p \in DOMAIN users :
                 /\ \E w \in Windows :
                      users'[p] = [users[p] EXCEPT
                                     !.availability = Append(@, w)]
                 /\ \A q \in DOMAIN users \ {p} : users'[q] = users[q]
                 /\ DOMAIN users' = DOMAIN users
                 /\ interviews' = interviews]_vars
    /\ [][users' # users
            => \A p \in DOMAIN users :
                 /\ Len(users'[p].availability) >= Len(users[p].availability)
                 /\ \A k \in 1..Len(users[p].availability) :
                      users'[p].availability[k] = users[p].availability[k]
                 /\ \A s \in Slots :
                      is_available(users[p], s) => is_available(users'[p], s)
          ]_vars
    /\ [][last'.op \in {"schedule_interview", "cancel_interview"}
            => \A p \in DOMAIN users :
                 users'[p].availability = users[p].availability]_vars

\* The HR manager of interview 1 added the same window twice and holds it
\* twice; interview 1 was booked and has just been cancelled, and the HR
\* manager is still available at its slot.
C25_Witness ==
    /\ last.op = "cancel_interview"
    /\ last.err = "true"
    /\ 1 \in DOMAIN interviews
    /\ interviews[1].status = "CANCELLED"
    /\ LET hr == users[interviews[1].hr_manager_id]
       IN  /\ Len(hr.availability) = MaxAvail + 1
           /\ hr.availability[1] = hr.availability[MaxAvail + 1]
           /\ is_available(hr, interviews[1].time_slot)

\* ------------------------------------------------------------------- C26
\* C26: booking and cancelling touch only the two participants involved. A
\* successful schedule_interview leaves every participant other than the HR
\* manager and the interviewer of the new interview, and every interview
\* already in the registry, as they were; a cancel_interview that finds its
\* interview leaves every participant other than its two, and every other
\* interview, as they were, and the two participants lose that id only.
C26_OnlyTheTwo ==
    /\ [][(last'.op = "schedule_interview" /\ last'.err = "")
            => \E x \in DOMAIN interviews' \ DOMAIN interviews :
                 /\ x = last'.ret
                 /\ DOMAIN users' = DOMAIN users
                 /\ \A p \in DOMAIN users :
                      IF p \in {interviews'[x].hr_manager_id,
                                interviews'[x].interviewer_id}
                      THEN users'[p] = [users[p] EXCEPT
                                          !.scheduled_interviews = @ \cup {x}]
                      ELSE users'[p] = users[p]
                 /\ \A y \in DOMAIN interviews :
                      interviews'[y] = interviews[y]]_vars
    /\ [][(last'.op = "cancel_interview" /\ last'.err = "true")
            => \E x \in DOMAIN interviews :
                 /\ x = last'.ret
                 /\ DOMAIN users' = DOMAIN users
                 /\ DOMAIN interviews' = DOMAIN interviews
                 /\ \A p \in DOMAIN users :
                      IF p \in {interviews[x].hr_manager_id,
                                interviews[x].interviewer_id}
                      THEN users'[p] = [users[p] EXCEPT
                                          !.scheduled_interviews = @ \ {x}]
                      ELSE users'[p] = users[p]
                 /\ \A y \in DOMAIN interviews \ {x} :
                      interviews'[y] = interviews[y]]_vars

\* Three participants: the HR manager holds interviews 1 and 2 with two
\* different interviewers. Interview 2 has just been cancelled; interview 1
\* is still SCHEDULED and still in the booking set of its interviewer, who
\* took no part in interview 2.
C26_Witness ==
    /\ last.op = "cancel_interview"
    /\ last.err = "true"
    /\ last.ret = 2
    /\ DOMAIN users = 1..MaxUsers
    /\ DOMAIN interviews = {1, 2}
    /\ interviews[1].status = "SCHEDULED"
    /\ interviews[2].status = "CANCELLED"
    /\ interviews[1].hr_manager_id = interviews[2].hr_manager_id
    /\ interviews[1].interviewer_id # interviews[2].interviewer_id
    /\ users[interviews[1].interviewer_id].scheduled_interviews = {1}
    /\ users[interviews[1].hr_manager_id].scheduled_interviews = {1}
    /\ users[interviews[2].interviewer_id].scheduled_interviews = {}

====
